---- MODULE Spec2Model ----
(***************************************************************************)
(* Model of the data-quality core of Data_Quality_Project:                 *)
(*   src/src/quality_check.py  DataQualityChecker                          *)
(*   src/src/api_validator.py  APIValidator                                *)
(*                                                                         *)
(* A DataFrame is modelled by what the checks read of it: its column set,  *)
(* one dtype tag per column and its ordered rows.  Python dicts are        *)
(* functions, None is an explicit flag, f-string messages are records      *)
(* holding the text and the interpolated values.  A threshold is the exact *)
(* rational <<num, den>>.                                                  *)
(***************************************************************************)
EXTENDS Integers, Sequences, FiniteSets, TLC

(* ---------------------------- bounds ----------------------------------- *)
MaxRows == 3
MaxCalls == 1
MaxRepeat == 2
MaxSummaries == 1
MaxStoreCalls == 2

(* ------------------------- input universes ----------------------------- *)
Columns == {"post_id", "title"}
NaN == "NaN"
Values == {NaN, "v"}
DTypes == {"object", "int64", "float64"}
(* post_id is a numeric or text column, title a text column *)
ColumnDTypes(c) == IF c = "title" THEN {"object"} ELSE DTypes
Thresholds == {<<0, 1>>, <<1, 2>>}
DefaultThreshold == <<1, 2>>

Range(f) == {f[x] : x \in DOMAIN f}

(* DataQualityChecker(data=None): no batch is bound *)
NoData == [isNone |-> TRUE, columns |-> {}, dtypes |-> <<>>, rows |-> <<>>]

RowSeqs(cols) == UNION {[1..n -> [cols -> Values]] : n \in 0..MaxRows}

(* a column that holds a missing value cannot carry the int64 tag *)
WellTyped(dt, rs) ==
    \A c \in DOMAIN dt :
        dt[c] = "int64" => \A i \in 1..Len(rs) : rs[i][c] # NaN

FramesOver(cols) ==
    {[isNone |-> FALSE, columns |-> cols, dtypes |-> dt, rows |-> rs] :
        <<dt, rs>> \in {p \in [cols -> DTypes] \X RowSeqs(cols) :
                            /\ \A c \in cols : p[1][c] \in ColumnDTypes(c)
                            /\ WellTyped(p[1], p[2])}}

Frames == UNION {FramesOver(cols) : cols \in SUBSET Columns}

(* expected type of one column: a dtype name, or a tuple of dtype names *)
Single(t) == [isTuple |-> FALSE, tags |-> <<t>>]
Tuple(ts) == [isTuple |-> TRUE, tags |-> ts]

NoneTypes == [isNone |-> TRUE, types |-> <<>>]
Mapping(m) == [isNone |-> FALSE, types |-> m]
TypeMaps ==
    {<<>>,
     [c \in {"post_id"} |-> Single("int64")],
     [c \in {"post_id", "title"} |->
         IF c = "post_id" THEN Tuple(<<"float64", "int64">>) ELSE Single("object")]}
ExpectedTypes == {NoneTypes} \cup {Mapping(m) : m \in TypeMaps}

(* faulty variant: the type check is run whatever the argument *)
TruthyAlways(expected_types) == TRUE

(* Python truth value of the expected_types argument (None and {} are falsy) *)
Truthy(expected_types) ==
    ~expected_types.isNone /\ DOMAIN expected_types.types # {}

(* ------------------------------ messages ------------------------------- *)
Msg(text, n, d, cols) == [text |-> text, n |-> n, d |-> d, cols |-> cols]
NoDataMsg == Msg("No data provided", 0, 1, {})

(* ------------------------ DataQualityChecker --------------------------- *)
(* Every method is an operator on self = [data, issues] that yields the    *)
(* returned dict (ret) and the checker after the call (self).              *)

Checker(data) == [data |-> data, issues |-> <<>>]

len(data) == Len(data.rows)

(* self.data.isnull().sum() / len(self.data): the fraction <<missing, rows>> *)
missing_values(data) ==
    [c \in data.columns |->
        <<Cardinality({i \in 1..len(data) : data.rows[i][c] = NaN}), len(data)>>]

(* faulty variant: the comparison is >= instead of > *)
GreaterOrEqual(frac, threshold) ==
    /\ frac[2] # 0
    /\ frac[1] * threshold[2] >= threshold[1] * frac[2]

(* fraction > threshold; 0/0 is NaN, which compares False with everything *)
GreaterThan(frac, threshold) ==
    /\ frac[2] # 0
    /\ frac[1] * threshold[2] > threshold[1] * frac[2]

check_missing_values(self, threshold) ==
    IF self.data.isNone
    THEN [self |-> self, ret |-> [passed |-> FALSE, message |-> NoDataMsg]]
    ELSE LET mv == missing_values(self.data)
             problematic_columns ==
                 {c \in self.data.columns : GreaterThan(mv[c], threshold)}
             output ==
                 [passed |-> Cardinality(problematic_columns) = 0,
                  columns_with_issues |-> [c \in problematic_columns |-> mv[c]],
                  message |-> Msg("Columns with more than % missing values",
                                  threshold[1], threshold[2], problematic_columns)]
         IN  [self |-> IF ~output.passed
                       THEN [self EXCEPT !.issues = Append(@, output.message)]
                       ELSE self,
              ret |-> output]

(* faulty variant: keep=False, every occurrence of a repeated row is marked *)
duplicated_keep_none(data) ==
    IF data.columns = {} \/ len(data) = 0
    THEN {}
    ELSE {i \in 1..len(data) :
             \E j \in 1..len(data) : j # i /\ data.rows[j] = data.rows[i]}

(* self.data.duplicated(): row i is marked when an earlier row equals it in *)
(* every column (missing values compare equal); a frame with an empty axis  *)
(* yields an empty mask                                                     *)
duplicated(data) ==
    IF data.columns = {} \/ len(data) = 0
    THEN {}
    ELSE {i \in 1..len(data) : \E j \in 1..(i - 1) : data.rows[j] = data.rows[i]}

(* faulty variant: the duplicates are dropped from the batch in place *)
check_duplicates_dropping(self) ==
    IF self.data.isNone
    THEN [self |-> self, ret |-> [passed |-> FALSE, message |-> NoDataMsg]]
    ELSE LET dup == duplicated(self.data)
             kept == SelectSeq([i \in 1..len(self.data) |-> <<i, self.data.rows[i]>>],
                               LAMBDA p : p[1] \notin dup)
             duplicate_count == Cardinality(dup)
             output ==
                 [passed |-> duplicate_count = 0,
                  duplicate_rows |-> duplicate_count,
                  message |-> Msg("Number of duplicate rows found",
                                  duplicate_count, 1, {})]
             after == [self EXCEPT !.data.rows = [i \in 1..Len(kept) |-> kept[i][2]]]
         IN  [self |-> IF ~output.passed
                       THEN [after EXCEPT !.issues = Append(@, output.message)]
                       ELSE after,
              ret |-> output]

check_duplicates(self) ==
    IF self.data.isNone
    THEN [self |-> self, ret |-> [passed |-> FALSE, message |-> NoDataMsg]]
    ELSE LET duplicate_count == Cardinality(duplicated(self.data))
             output ==
                 [passed |-> duplicate_count = 0,
                  duplicate_rows |-> duplicate_count,
                  message |-> Msg("Number of duplicate rows found",
                                  duplicate_count, 1, {})]
         IN  [self |-> IF ~output.passed
                       THEN [self EXCEPT !.issues = Append(@, output.message)]
                       ELSE self,
              ret |-> output]

(* faulty variant: a column that is absent from the batch is skipped *)
MismatchSkipAbsent(data, col, expected_type) ==
    IF col \notin data.columns
    THEN FALSE
    ELSE LET actual_type == data.dtypes[col]
         IN  IF expected_type.isTuple
             THEN actual_type \notin Range(expected_type.tags)
             ELSE actual_type # expected_type.tags[1]

(* one iteration of the loop of check_data_types: is col a mismatch? *)
Mismatch(data, col, expected_type) ==
    IF col \notin data.columns
    THEN TRUE
    ELSE LET actual_type == data.dtypes[col]
         IN  IF expected_type.isTuple
             THEN actual_type \notin Range(expected_type.tags)
             ELSE actual_type # expected_type.tags[1]

MismatchText(data, col, expected_type) ==
    IF col \notin data.columns THEN "Column not found"
    ELSE IF expected_type.isTuple THEN "Expected one of, found"
    ELSE "Expected, found"

(* faulty variant: the loop stops at the first mismatch *)
check_data_types_first(self, expected_types) ==
    IF self.data.isNone
    THEN [self |-> self, ret |-> [passed |-> FALSE, message |-> NoDataMsg]]
    ELSE LET all_bad == {col \in DOMAIN expected_types :
                            Mismatch(self.data, col, expected_types[col])}
             bad == IF all_bad = {} THEN {} ELSE {CHOOSE col \in all_bad : TRUE}
             mismatches ==
                 [col \in bad |-> MismatchText(self.data, col, expected_types[col])]
             output ==
                 [passed |-> Cardinality(DOMAIN mismatches) = 0,
                  type_mismatches |-> mismatches,
                  message |-> Msg("Data type mismatches found",
                                  Cardinality(DOMAIN mismatches), 1, {})]
         IN  [self |-> IF ~output.passed
                       THEN [self EXCEPT !.issues = Append(@, output.message)]
                       ELSE self,
              ret |-> output]

check_data_types(self, expected_types) ==
    IF self.data.isNone
    THEN [self |-> self, ret |-> [passed |-> FALSE, message |-> NoDataMsg]]
    ELSE LET bad == {col \in DOMAIN expected_types :
                        Mismatch(self.data, col, expected_types[col])}
             mismatches ==
                 [col \in bad |-> MismatchText(self.data, col, expected_types[col])]
             output ==
                 [passed |-> Cardinality(DOMAIN mismatches) = 0,
                  type_mismatches |-> mismatches,
                  message |-> Msg("Data type mismatches found",
                                  Cardinality(DOMAIN mismatches), 1, {})]
         IN  [self |-> IF ~output.passed
                       THEN [self EXCEPT !.issues = Append(@, output.message)]
                       ELSE self,
              ret |-> output]

(* faulty variant: emptiness judged by the columns instead of the rows *)
is_empty_columns(data) == data.columns = {}

is_empty(data) == len(data) = 0

check_empty_dataset(self) ==
    IF self.data.isNone
    THEN [self |-> self,
          ret |-> [passed |-> FALSE, row_count |-> 0, message |-> NoDataMsg]]
    ELSE LET output ==
                 [passed |-> ~is_empty(self.data),
                  row_count |-> len(self.data),
                  message |-> IF is_empty(self.data)
                              THEN Msg("Dataset is empty", 0, 1, {})
                              ELSE Msg("Dataset is not empty", 0, 1, {})]
         IN  [self |-> IF ~output.passed
                       THEN [self EXCEPT !.issues = Append(@, output.message)]
                       ELSE self,
              ret |-> output]

(* faulty variant: any() instead of all() *)
any_passed(output) == \E k \in DOMAIN output : output[k].passed

(* all(check["passed"] for check in output.values()) *)
all_passed(output) == \A k \in DOMAIN output : output[k].passed

(* run_all_checks: the three checks always, the type check when           *)
(* expected_types is truthy; issues_found is the checker's own list       *)
run_all_checks(self, expected_types, missing_value_threshold) ==
    LET e == check_empty_dataset(self)
        m == check_missing_values(e.self, missing_value_threshold)
        d == check_duplicates(m.self)
        t == IF Truthy(expected_types)
             THEN check_data_types(d.self, expected_types.types)
             ELSE [self |-> d.self, ret |-> [passed |-> TRUE]]
        names == {"empty_dataset", "missing_values", "duplicates"}
                     \cup (IF Truthy(expected_types) THEN {"data_types"} ELSE {})
        output == [k \in names |->
                      IF k = "empty_dataset" THEN e.ret
                      ELSE IF k = "missing_values" THEN m.ret
                      ELSE IF k = "duplicates" THEN d.ret
                      ELSE t.ret]
    IN  [self |-> t.self,
         ret |-> [validation_passed |-> all_passed(output),
                  issues_found |-> t.self.issues,
                  detailed_results |-> output]]

(* ------------------------------ validate_dict -------------------------- *)
(* A value of the record is modelled by its runtime type; isinstance       *)
(* follows the class hierarchy, in which bool is a subclass of int.        *)
PyTypes == {"str", "int", "float", "bool"}
Fields == {"city", "humidity"}

Subclass(t, base) == t = base \/ (t = "bool" /\ base = "int")
isinstance(value, expected_type) ==
    \E base \in Range(expected_type.tags) : Subclass(value, base)

(* arguments: None, a DataFrame, a dict, or something of another shape    *)
(* (a non-zero int, a non-empty list that holds no field name)             *)
NoneArg == [kind |-> "None", items |-> <<>>, frame |-> NoData]
FrameArg(f) == [kind |-> "frame", items |-> <<>>, frame |-> f]
DictArg(items) == [kind |-> "dict", items |-> items, frame |-> NoData]
IntArg == [kind |-> "int", items |-> <<>>, frame |-> NoData]
ListArg == [kind |-> "list", items |-> <<>>, frame |-> NoData]
Dicts == UNION {{DictArg(r) : r \in [ks -> PyTypes]} : ks \in SUBSET Fields}
SchemaSpecs == {Single("int"), Tuple(<<"int", "float">>)}
Schemas == UNION {[fs -> SchemaSpecs] : fs \in SUBSET Fields}

(* "field not in data_dict" needs a container: an int argument raises *)
NotAContainer(data_dict) == data_dict.kind = "int"

validate_dict(data_dict, schema) ==
    IF DOMAIN schema # {} /\ NotAContainer(data_dict)
    THEN [raised |-> TRUE]
    ELSE LET missing == {field \in DOMAIN schema : field \notin DOMAIN data_dict.items}
             wrong == {field \in DOMAIN schema \ missing :
                          ~isinstance(data_dict.items[field], schema[field])}
             errors == [field \in missing \cup wrong |->
                           IF field \in missing THEN "Missing required field"
                           ELSE IF schema[field].isTuple
                           THEN "Expected type (tuple), got"
                           ELSE "Expected type, got"]
             is_valid == Cardinality(DOMAIN errors) = 0
             details ==
                 [errors |-> IF DOMAIN errors # {}
                             THEN [isNone |-> FALSE, map |-> errors]
                             ELSE [isNone |-> TRUE, map |-> <<>>],
                  fields_validated |-> Cardinality(DOMAIN schema),
                  fields_passed |-> Cardinality(DOMAIN schema)
                                        - Cardinality(DOMAIN errors)]
         IN  [raised |-> FALSE, is_valid |-> is_valid, details |-> details]

(* ------------------------------ APIValidator --------------------------- *)

(* schema of validate_weather_data *)
WeatherSchema ==
    [f \in {"city", "temperature", "humidity", "pressure", "timestamp", "source"} |->
        IF f \in {"city", "source"} THEN Single("str")
        ELSE IF f = "temperature" THEN Tuple(<<"int", "float">>)
        ELSE IF f = "timestamp" THEN Tuple(<<"str", "datetime">>)
        ELSE Single("int")]

(* expected_types of validate_cryptocurrencies_data *)
CryptoTypes ==
    [c \in {"symbol", "name", "current_price", "market_cap", "market_cap_rank",
            "trading_volume_24h", "price_change_24h"} |->
        IF c \in {"symbol", "name"} THEN Single("object")
        ELSE IF c \in {"current_price", "price_change_24h"}
        THEN Tuple(<<"float64", "int64">>)
        ELSE Tuple(<<"int64", "float64">>)]

(* expected_types of validate_posts_data *)
PostsTypes ==
    [c \in {"post_id", "user_id", "title", "body", "word_count"} |->
        IF c \in {"title", "body"} THEN Single("object") ELSE Single("int64")]

(* faulty variant: only None is refused, an empty dict is validated *)
IsNone(arg) == arg.kind = "None"

(* "not weather_data": None and the empty dict are falsy *)
Falsy(arg) == arg.kind = "None" \/ (arg.kind = "dict" /\ DOMAIN arg.items = {})

(* faulty variant: a batch with columns and no rows is not empty *)
empty_columns(frame) == frame.columns = {}

(* DataFrame.empty: some axis has length zero *)
empty(frame) == frame.columns = {} \/ len(frame) = 0

(* a cell that holds a list cannot be hashed: duplicated() raises TypeError *)
Unhashable == "[]"
ChecksRaise(frame) ==
    \E i \in 1..len(frame) : \E c \in frame.columns : frame.rows[i][c] = Unhashable

Raised == [raised |-> TRUE]

(* validate_weather_data; v is the validator (self.results) *)
validate_weather_data(results, weather_data) ==
    IF Falsy(weather_data)
    THEN [results |-> results,
          ret |-> [raised |-> FALSE, is_valid |-> FALSE,
                   details |-> [error |-> "Empty or None weather data"]]]
    ELSE LET r == validate_dict(weather_data, WeatherSchema)
         IN  IF r.raised
             THEN [results |-> results,
                   ret |-> [raised |-> FALSE, is_valid |-> FALSE,
                            details |-> [error |-> "str(e)"]]]
             ELSE [results |-> [k \in DOMAIN results \cup {"weather_data"} |->
                                   IF k = "weather_data" THEN r.details
                                   ELSE results[k]],
                   ret |-> [raised |-> FALSE, is_valid |-> r.is_valid,
                            details |-> r.details]]

(* faulty variant: the row count is not attached *)
ValidatedUncounted(results, df, key, r) ==
    LET result == [raised |-> FALSE,
                   validation_passed |-> r.validation_passed,
                   issues_found |-> r.issues_found,
                   detailed_results |-> r.detailed_results,
                   records_validated |-> 0]
    IN  [results |-> [k \in DOMAIN results \cup {key} |->
                         IF k = key THEN result ELSE results[k]],
         ret |-> result]

(* the dict returned (and stored under key) after run_all_checks returned r *)
Validated(results, df, key, r) ==
    LET result == [raised |-> FALSE,
                   validation_passed |-> r.validation_passed,
                   issues_found |-> r.issues_found,
                   detailed_results |-> r.detailed_results,
                   records_validated |-> len(df.frame)]
    IN  [results |-> [k \in DOMAIN results \cup {key} |->
                         IF k = key THEN result ELSE results[k]],
         ret |-> result]

(* faulty variant: no except clause, a failure of the checker propagates *)
validate_frame_uncaught(results, df, key, expected_types) ==
    IF df.kind \notin {"None", "frame"}
    THEN [results |-> results, ret |-> Raised]
    ELSE IF df.kind = "None" \/ empty(df.frame)
    THEN [results |-> results,
          ret |-> [raised |-> FALSE, validation_passed |-> FALSE,
                   details |-> "Empty or None DataFrame provided",
                   records_validated |-> 0]]
    ELSE IF ChecksRaise(df.frame)
    THEN [results |-> results, ret |-> Raised]
    ELSE CHOOSE out \in
             {Validated(results, df, key, r) :
                 r \in {run_all_checks(Checker(df.frame), Mapping(expected_types),
                                       DefaultThreshold).ret}} : TRUE

(* the common body of validate_cryptocurrencies_data / validate_posts_data *)
validate_frame(results, df, key, expected_types) ==
    IF df.kind \notin {"None", "frame"}
    THEN [results |-> results, ret |-> Raised]
    ELSE IF df.kind = "None" \/ empty(df.frame)
    THEN [results |-> results,
          ret |-> [raised |-> FALSE, validation_passed |-> FALSE,
                   details |-> "Empty or None DataFrame provided",
                   records_validated |-> 0]]
    ELSE IF ChecksRaise(df.frame)
    THEN [results |-> results,
          ret |-> [raised |-> FALSE, validation_passed |-> FALSE,
                   details |-> "str(e)", records_validated |-> 0]]
    ELSE CHOOSE out \in
             {Validated(results, df, key, r) :
                 r \in {run_all_checks(Checker(df.frame), Mapping(expected_types),
                                       DefaultThreshold).ret}} : TRUE

validate_cryptocurrencies_data(results, crypto_df) ==
    validate_frame(results, crypto_df, "cryptocurrencies_data", CryptoTypes)

validate_posts_data(results, posts_df) ==
    validate_frame(results, posts_df, "posts_data", PostsTypes)

(* the three steps of validate_all; a domain that is not supplied is      *)
(* skipped, and so is every step after one that raised                     *)
WeatherStep(results, weather_data) ==
    IF weather_data.kind # "None"
    THEN validate_weather_data(results, weather_data)
    ELSE [results |-> results, ret |-> [raised |-> FALSE, is_valid |-> TRUE]]

CryptoStep(w, crypto_df) ==
    IF crypto_df.kind # "None" /\ ~w.ret.raised
    THEN validate_cryptocurrencies_data(w.results, crypto_df)
    ELSE [results |-> w.results,
          ret |-> [raised |-> FALSE, validation_passed |-> TRUE]]

PostsStep(c, posts_df) ==
    IF posts_df.kind # "None" /\ ~c.ret.raised
    THEN validate_posts_data(c.results, posts_df)
    ELSE [results |-> c.results,
          ret |-> [raised |-> FALSE, validation_passed |-> TRUE]]

(* faulty variant: the verdicts are joined with "or" *)
AllResultsAny(w, c, p, weather_data, crypto_df, posts_df) ==
    LET supplied == (IF weather_data.kind # "None" THEN {"weather"} ELSE {})
                        \cup (IF crypto_df.kind # "None" THEN {"cryptocurrencies"} ELSE {})
                        \cup (IF posts_df.kind # "None" THEN {"posts"} ELSE {})
        validations ==
            [k \in supplied |->
                IF k = "weather"
                THEN [passed |-> w.ret.is_valid, details |-> w.ret.details]
                ELSE IF k = "cryptocurrencies" THEN c.ret ELSE p.ret]
    IN  IF w.ret.raised \/ c.ret.raised \/ p.ret.raised
        THEN [results |-> p.results, ret |-> Raised]
        ELSE [results |-> p.results,
              ret |-> [raised |-> FALSE,
                       validations |-> validations,
                       overall_passed |-> \/ w.ret.is_valid
                                          \/ c.ret.validation_passed
                                          \/ p.ret.validation_passed]]

(* what validate_all returns after the steps w, c, p *)
AllResults(w, c, p, weather_data, crypto_df, posts_df) ==
    LET supplied == (IF weather_data.kind # "None" THEN {"weather"} ELSE {})
                        \cup (IF crypto_df.kind # "None" THEN {"cryptocurrencies"} ELSE {})
                        \cup (IF posts_df.kind # "None" THEN {"posts"} ELSE {})
        validations ==
            [k \in supplied |->
                IF k = "weather"
                THEN [passed |-> w.ret.is_valid, details |-> w.ret.details]
                ELSE IF k = "cryptocurrencies" THEN c.ret ELSE p.ret]
    IN  IF w.ret.raised \/ c.ret.raised \/ p.ret.raised
        THEN [results |-> p.results, ret |-> Raised]
        ELSE [results |-> p.results,
              ret |-> [raised |-> FALSE,
                       validations |-> validations,
                       overall_passed |-> /\ w.ret.is_valid
                                          /\ c.ret.validation_passed
                                          /\ p.ret.validation_passed]]

(* validate_all: the supplied domains in turn; an exception of a step ends *)
(* the call with the steps before it done                                  *)
validate_all(results, weather_data, crypto_df, posts_df) ==
    CHOOSE out \in
        UNION {UNION {{AllResults(w, c, p, weather_data, crypto_df, posts_df) :
                          p \in {PostsStep(c, posts_df)}} :
                      c \in {CryptoStep(w, crypto_df)}} :
               w \in {WeatherStep(results, weather_data)}} : TRUE

(* result.get('validation_passed', False) *)
get_validation_passed(result) ==
    IF "validation_passed" \in DOMAIN result THEN result.validation_passed ELSE FALSE

(* get_validation_summary: total is len(self.results); every stored result *)
(* is a dict and counts as passed or failed by its 'validation_passed'     *)
(* entry; details is self.results itself                                   *)
get_validation_summary(results) ==
    LET passing == {key \in DOMAIN results : get_validation_passed(results[key])}
    IN  [raised |-> FALSE,
         total_validations |-> Cardinality(DOMAIN results),
         passed |-> Cardinality(passing),
         failed |-> Cardinality(DOMAIN results \ passing),
         details |-> results]

(* ------------------------------ APIDataStore --------------------------- *)
(* The store is modelled by its connection (None, an open connection, a   *)
(* connection that is not connected) and by the number of batch rows that  *)
(* were committed.  A call into the database driver may raise; the call    *)
(* that raises is an input of the operator.  Every operator yields the     *)
(* store after the call, what the call returned and the driver calls it    *)
(* made (ops).                                                             *)
NewStore == [connection |-> "None", committed |-> 0]

(* self.connection and self.connection.is_connected() *)
is_connected(store) == store.connection = "open"

ConnectOutcomes == {"connected", "not_connected", "error"}
connect(store, outcome) ==
    IF outcome = "connected"
    THEN [store |-> [store EXCEPT !.connection = "open"], ret |-> TRUE]
    ELSE IF outcome = "not_connected"
    THEN [store |-> [store EXCEPT !.connection = "closed"], ret |-> FALSE]
    ELSE [store |-> store, ret |-> FALSE]

disconnect(store) ==
    IF is_connected(store)
    THEN [store |-> [store EXCEPT !.connection = "closed"], ops |-> <<"close_connection">>]
    ELSE [store |-> store, ops |-> <<>>]

CreateFaults == {"none", "cursor", "execute", "commit", "close"}
create_tables(store, fail) ==
    IF ~is_connected(store)
    THEN [store |-> store, ret |-> FALSE, ops |-> <<>>]
    ELSE [store |-> store,
          ret |-> (fail = "none"),
          ops |-> IF fail = "cursor" THEN <<"cursor">>
                  ELSE IF fail = "execute" THEN <<"cursor", "execute">>
                  ELSE IF fail = "commit"
                  THEN <<"cursor", "execute", "execute", "execute", "commit">>
                  ELSE <<"cursor", "execute", "execute", "execute", "commit", "close">>]

(* the step of an insert that raises: none, cursor(), the conversion of a  *)
(* cell while the records are built, the statement, commit(), close()      *)
StoreFaults == {"none", "cursor", "records", "statement", "commit", "close"}

(* cursor.rowcount of INSERT ... ON DUPLICATE KEY UPDATE: per row 1 for an *)
(* insert, 2 for an update, 0 when nothing changed                         *)
RowCounts(n) == {0, n, 2 * n}

Returned(value) == [raised |-> FALSE, value |-> value]

(* the try block of the store methods: statement is "executemany" or       *)
(* "execute", n the number of rows; except: rollback() and return 0, and   *)
(* rollback() may raise in its turn                                        *)
insert(store, statement, n, fail, rollback_fails, rowcount) ==
    LET tried == IF fail \in {"cursor", "records"} THEN <<"cursor">>
                 ELSE IF fail = "statement" THEN <<"cursor", statement>>
                 ELSE IF fail = "commit" THEN <<"cursor", statement, "commit">>
                 ELSE <<"cursor", statement, "commit", "close">>
        after == IF fail \in {"none", "close"}
                 THEN [store EXCEPT !.committed = @ + n]
                 ELSE store
    IN  IF fail = "none"
        THEN [store |-> after, ret |-> Returned(rowcount), ops |-> tried]
        ELSE [store |-> after,
              ret |-> IF rollback_fails THEN Raised ELSE Returned(0),
              ops |-> Append(tried, "rollback")]

(* faulty variant: the connection is not tested before the insert *)
store_frame_unguarded(store, df, fail, rollback_fails, rowcount) ==
    IF empty(df.frame)
    THEN [store |-> store, ret |-> Returned(0), ops |-> <<>>]
    ELSE insert(store, "executemany", len(df.frame), fail, rollback_fails, rowcount)

(* the common body of store_cryptocurrency / store_posts *)
store_frame(store, df, fail, rollback_fails, rowcount) ==
    IF ~is_connected(store)
    THEN [store |-> store, ret |-> Returned(0), ops |-> <<>>]
    ELSE IF empty(df.frame)
    THEN [store |-> store, ret |-> Returned(0), ops |-> <<>>]
    ELSE insert(store, "executemany", len(df.frame), fail, rollback_fails, rowcount)

store_cryptocurrency(store, crypto_df, fail, rollback_fails, rowcount) ==
    store_frame(store, crypto_df, fail, rollback_fails, rowcount)

store_posts(store, posts_df, fail, rollback_fails, rowcount) ==
    store_frame(store, posts_df, fail, rollback_fails, rowcount)

(* store_weather_data(weather_summary): one row, a plain INSERT *)
store_weather_data(store, fail, rollback_fails) ==
    IF ~is_connected(store)
    THEN [store |-> store, ret |-> Returned(0), ops |-> <<>>]
    ELSE insert(store, "execute", 1, fail, rollback_fails, 1)

(* ------------------- state of one DataQualityChecker ------------------- *)
VARIABLES
    data,      \* self.data
    issues,    \* self.issues
    call,      \* the last method called, with its arguments
    ret,       \* what that call returned
    reports,   \* the reports run_all_checks has returned, as they were returned
    ncalls,    \* number of check calls made
    results,   \* APIValidator: self.results
    vcall,     \* APIValidator: the last entry point called, with its arguments
    vret,      \* APIValidator: what that call returned, or that it raised
    summaries, \* APIValidator: the summaries callers hold, each as it was
               \* returned, as its holder reads it now, and whether its
               \* details is still the dict self.results is bound to
    store,     \* APIDataStore: self.connection and the rows committed
    scall,     \* APIDataStore: the last method called, with its arguments
    sret,      \* APIDataStore: what that call returned, or that it raised
    dbops,     \* APIDataStore: the driver calls that call made
    nstore,    \* APIDataStore: number of calls made
    pc,        \* run_api_pipeline: the step the run is at
    pargs,     \* run_api_pipeline: fetch_weather and weather_key
    pipeline_results, \* run_api_pipeline: the counters
    fetched,   \* run_api_pipeline: crypto_df / posts_df / weather_data
    trace,     \* run_api_pipeline: the calls made so far, in order
    dashboard  \* run_api_pipeline: whether the dashboard was generated

cvars == <<data, issues, call, ret, reports, ncalls>>
vvars == <<results, vcall, vret, summaries>>
svars == <<store, scall, sret, dbops, nstore>>
pvars == <<pc, pargs, pipeline_results, fetched, trace, dashboard>>
vars == <<data, issues, call, ret, reports, ncalls, results, vcall, vret, summaries,
          store, scall, sret, dbops, nstore,
          pc, pargs, pipeline_results, fetched, trace, dashboard>>

Self == [data |-> data, issues |-> issues]

Call(op, threshold, expected_types, data_dict, schema) ==
    [op |-> op, threshold |-> threshold, expected_types |-> expected_types,
     data_dict |-> data_dict, schema |-> schema]
NoCall == Call("__init__", DefaultThreshold, NoneTypes, DictArg(<<>>), <<>>)
NoRet == [passed |-> TRUE]

VCall(op, weather_data, crypto_df, posts_df) ==
    [op |-> op, weather_data |-> weather_data, crypto_df |-> crypto_df,
     posts_df |-> posts_df]

(* APIValidator.__init__ *)
InitValidator ==
    /\ results = <<>>
    /\ vcall = VCall("__init__", NoneArg, NoneArg, NoneArg)
    /\ vret = [raised |-> FALSE]
    /\ summaries = <<>>

SCall(op, df, fail, rollback_fails, rowcount) ==
    [op |-> op, df |-> df, fail |-> fail, rollback_fails |-> rollback_fails,
     rowcount |-> rowcount]

(* APIDataStore.__init__ *)
InitStore ==
    /\ store = NewStore
    /\ scall = SCall("__init__", NoneArg, "none", FALSE, 0)
    /\ sret = Returned(0)
    /\ dbops = <<>>
    /\ nstore = 0

(* --------------------------- run_api_pipeline -------------------------- *)
Tabular == {"cryptocurrencies", "posts"}

At(at, domain) == [at |-> at, domain |-> domain]

Event(step, domain, ok, raised, count, ops) ==
    [step |-> step, domain |-> domain, ok |-> ok, raised |-> raised,
     count |-> count, ops |-> ops]

NewResults ==
    [total_apis |-> 0, successful_fetches |-> 0, successful_validations |-> 0,
     successful_stores |-> 0, total_records_fetched |-> 0, total_records_stored |-> 0]

(* "crypto_df is not None and not crypto_df.empty", "if weather_data:" *)
Got(domain, d) ==
    IF domain \in Tabular
    THEN d.kind = "frame" /\ ~empty(d.frame)
    ELSE ~Falsy(d)

(* len(crypto_df), len(posts_df); one weather record *)
Records(domain, d) == IF domain \in Tabular THEN len(d.frame) ELSE 1

(* faulty variant: the call is counted, the successful fetch is not *)
CountFetchCalled(pr, n) ==
    [pr EXCEPT !.total_apis = @ + 1, !.total_records_fetched = @ + n]

CountFetch(pr, n) ==
    [pr EXCEPT !.total_apis = @ + 1, !.successful_fetches = @ + 1,
               !.total_records_fetched = @ + n]

CountValidation(pr, passed) ==
    IF passed THEN [pr EXCEPT !.successful_validations = @ + 1] ELSE pr

(* "if stored_count > 0:" *)
CountStore(pr, stored_count) ==
    IF stored_count > 0
    THEN [pr EXCEPT !.successful_stores = @ + 1, !.total_records_stored = @ + stored_count]
    ELSE pr

(* the block that follows the block of a domain; after the weather block   *)
(* the try statement ends and its finally clause runs                      *)
NextBlock(domain) ==
    IF domain = "cryptocurrencies" THEN At("fetch", "posts")
    ELSE IF domain = "posts" THEN At("fetch", "weather")
    ELSE At("disconnect", "finally")

(* faulty variant: a failed create_tables returns at once *)
AfterCreateTablesLeaking(created) ==
    IF created THEN At("fetch", "cryptocurrencies") ELSE At("returned", "-")

(* "if not store.create_tables(): store.disconnect(); return" *)
AfterCreateTables(created) ==
    IF created THEN At("fetch", "cryptocurrencies") ELSE At("disconnect", "create_tables")

AfterFetch(domain, got) == IF got THEN At("validate", domain) ELSE NextBlock(domain)

(* faulty variant: the batch is stored whatever the validation said *)
AfterValidationAlways(domain, passed) == At("store", domain)

(* "if validation_result['validation_passed']:", "if is_valid:" *)
AfterValidation(domain, passed) ==
    IF passed THEN At("store", domain) ELSE NextBlock(domain)

(* the validator call of a domain's block and the verdict the block reads *)
Validate(domain, res, d) ==
    IF domain = "cryptocurrencies" THEN validate_cryptocurrencies_data(res, d)
    ELSE IF domain = "posts" THEN validate_posts_data(res, d)
    ELSE validate_weather_data(res, d)

ValidationPassed(domain, r) ==
    IF domain \in Tabular THEN r.validation_passed ELSE r.is_valid

(* the keyword arguments the weather block passes to store_weather_data,   *)
(* and the keywords its signature (self, weather_summary) accepts          *)
StoreWeatherKeywords == {"validation_passed"}
store_weather_data_keywords == {}

(* the store call of a domain's block; a keyword the method does not       *)
(* accept is a TypeError raised before the body runs                       *)
StoreCall(domain, st, d, fail, rollback_fails, rowcount) ==
    IF domain = "cryptocurrencies"
    THEN store_cryptocurrency(st, d, fail, rollback_fails, rowcount)
    ELSE IF domain = "posts"
    THEN store_posts(st, d, fail, rollback_fails, rowcount)
    ELSE IF ~(StoreWeatherKeywords \subseteq store_weather_data_keywords)
    THEN [store |-> st, ret |-> Raised, ops |-> <<>>]
    ELSE store_weather_data(st, fail, rollback_fails)

InitPipeline ==
    /\ pc = At("idle", "-")
    /\ pargs = [fetch_weather |-> FALSE, weather_key |-> "None"]
    /\ pipeline_results = NewResults
    /\ fetched = NoneArg
    /\ trace = <<>>
    /\ dashboard = "none"

(* __init__ *)
Init ==
    /\ data \in Frames \cup {NoData}
    /\ issues = <<>>
    /\ call = NoCall
    /\ ret = NoRet
    /\ reports = <<>>
    /\ ncalls = 0
    /\ InitValidator
    /\ InitStore
    /\ InitPipeline

Method(out, c, limit) ==
    /\ ncalls < limit
    /\ \E r \in {out} :
           /\ data' = r.self.data
           /\ issues' = r.self.issues
           /\ ret' = r.ret
    /\ call' = c
    /\ ncalls' = ncalls + 1
    /\ UNCHANGED <<vvars, svars, pvars>>

CheckEmptyDataset(limit) ==
    /\ Method(check_empty_dataset(Self),
              Call("check_empty_dataset", DefaultThreshold, NoneTypes, DictArg(<<>>), <<>>),
              limit)
    /\ UNCHANGED reports

CheckMissingValues(limit) ==
    \E threshold \in Thresholds :
        /\ Method(check_missing_values(Self, threshold),
                  Call("check_missing_values", threshold, NoneTypes, DictArg(<<>>), <<>>),
                  limit)
        /\ UNCHANGED reports

CheckDuplicates(limit) ==
    /\ Method(check_duplicates(Self),
              Call("check_duplicates", DefaultThreshold, NoneTypes, DictArg(<<>>), <<>>),
              limit)
    /\ UNCHANGED reports

CheckDataTypes(limit) ==
    \E m \in TypeMaps :
        /\ Method(check_data_types(Self, m),
                  Call("check_data_types", DefaultThreshold, Mapping(m), DictArg(<<>>), <<>>),
                  limit)
        /\ UNCHANGED reports

RunAllChecks(limit) ==
    \E expected_types \in ExpectedTypes, threshold \in Thresholds :
        \E r \in {run_all_checks(Self, expected_types, threshold)} :
            LET c == Call("run_all_checks", threshold, expected_types, DictArg(<<>>), <<>>)
            IN  /\ Method(r, c, limit)
                /\ reports' = Append(reports, [call |-> c, report |-> r.ret])

(* one checker, each method called on it as constructed *)
Next ==
    \/ CheckEmptyDataset(MaxCalls)
    \/ CheckMissingValues(MaxCalls)
    \/ CheckDuplicates(MaxCalls)
    \/ CheckDataTypes(MaxCalls)
    \/ RunAllChecks(MaxCalls)

Spec == Init /\ [][Next]_vars

(* one checker, its methods called one after the other *)
NextRepeat ==
    \/ CheckEmptyDataset(MaxRepeat)
    \/ CheckMissingValues(MaxRepeat)
    \/ CheckDuplicates(MaxRepeat)
    \/ CheckDataTypes(MaxRepeat)
    \/ RunAllChecks(MaxRepeat)

SpecRepeat == Init /\ [][NextRepeat]_vars

(* ------------- the checker used for records (validate_dict) ------------ *)
DictArgs == Dicts \cup {IntArg, ListArg}

(* checkers of the record path: unbound, or bound to pd.DataFrame() *)
InitDict ==
    /\ data \in {NoData, [NoData EXCEPT !.isNone = FALSE]}
    /\ issues = <<>>
    /\ call = NoCall
    /\ ret = NoRet
    /\ reports = <<>>
    /\ ncalls = 0
    /\ InitValidator
    /\ InitStore
    /\ InitPipeline

(* faulty variant: an invalid record is logged in self.issues *)
ValidateDictLogging ==
    \E data_dict \in DictArgs, schema \in Schemas :
        \E r \in {validate_dict(data_dict, schema)} :
            /\ ret' = r
            /\ issues' = IF ~r.raised /\ ~r.is_valid
                         THEN Append(issues, Msg("Invalid record", 0, 1, {}))
                         ELSE issues
            /\ call' = Call("validate_dict", DefaultThreshold, NoneTypes, data_dict, schema)
            /\ UNCHANGED <<data, reports, ncalls, vvars, svars, pvars>>

(* validate_dict touches neither self.data nor self.issues *)
ValidateDict ==
    \E data_dict \in DictArgs, schema \in Schemas :
        /\ ret' = validate_dict(data_dict, schema)
        /\ call' = Call("validate_dict", DefaultThreshold, NoneTypes, data_dict, schema)
        /\ UNCHANGED <<data, issues, reports, ncalls, vvars, svars, pvars>>

NextDict ==
    \/ ValidateDict
    \/ CheckEmptyDataset(MaxRepeat)

SpecDict == InitDict /\ [][NextDict]_vars

(* ------- one checker, its reporting methods: tabular and record -------- *)
(* batches that fail several rules at once: at most one row, no title     *)
(* column                                                                  *)
ReportFrames == {f \in Frames : Len(f.rows) <= 1 /\ f.columns \subseteq {"post_id"}}

InitReports ==
    /\ data \in ReportFrames
    /\ issues = <<>>
    /\ call = NoCall
    /\ ret = NoRet
    /\ reports = <<>>
    /\ ncalls = 0
    /\ InitValidator
    /\ InitStore
    /\ InitPipeline

(* validate_dict as one of the calls made on the checker *)
ValidateDictCall(limit) ==
    /\ ncalls < limit
    /\ \E data_dict \in DictArgs, schema \in Schemas :
           /\ ret' = validate_dict(data_dict, schema)
           /\ call' = Call("validate_dict", DefaultThreshold, NoneTypes, data_dict, schema)
    /\ ncalls' = ncalls + 1
    /\ UNCHANGED <<data, issues, reports, vvars, svars, pvars>>

NextReports ==
    \/ RunAllChecks(MaxCalls)
    \/ CheckDataTypes(MaxCalls)
    \/ ValidateDictCall(MaxCalls)

SpecReports == InitReports /\ [][NextReports]_vars

(* ------------------------ one APIValidator ----------------------------- *)
(* batches of a domain: the schema's columns plus timestamp; the text      *)
(* columns of row i hold rowvals[i], the other columns a number            *)
GoodDTypes(expected_types) ==
    [c \in DOMAIN expected_types \cup {"timestamp"} |->
        IF c = "timestamp" THEN "datetime64[ns]" ELSE expected_types[c].tags[1]]

DomainFrame(dtypes, rowvals) ==
    [isNone |-> FALSE, columns |-> DOMAIN dtypes, dtypes |-> dtypes,
     rows |-> [i \in 1..Len(rowvals) |->
                  [c \in DOMAIN dtypes |->
                      IF dtypes[c] = "object" THEN rowvals[i] ELSE "1"]]]

RowVals == {<<>>, <<"a", "b">>, <<"a", "a">>, <<NaN>>, <<Unhashable>>}

(* the batches of a domain: well typed ones, and one whose column numeric  *)
(* holds text                                                              *)
DomainFrames(expected_types, numeric) ==
    {DomainFrame(GoodDTypes(expected_types), rv) : rv \in RowVals}
        \cup {DomainFrame([GoodDTypes(expected_types) EXCEPT ![numeric] = "object"],
                          <<"a", "b">>)}

(* pd.DataFrame([{}]): one row, no column *)
NoColumns == [isNone |-> FALSE, columns |-> {}, dtypes |-> <<>>, rows |-> <<<<>>>>]

CryptoArgs ==
    {NoneArg, ListArg, FrameArg(NoColumns)}
        \cup {FrameArg(f) : f \in DomainFrames(CryptoTypes, "current_price")}

PostsArgs ==
    {NoneArg, ListArg, FrameArg(NoColumns)}
        \cup {FrameArg(f) : f \in DomainFrames(PostsTypes, "word_count")}

ValidWeather ==
    [f \in DOMAIN WeatherSchema |->
        IF f \in {"city", "source"} THEN "str"
        ELSE IF f = "temperature" THEN "float"
        ELSE IF f = "timestamp" THEN "datetime"
        ELSE "int"]

WeatherArgs ==
    {NoneArg, IntArg, ListArg, DictArg(<<>>), DictArg(ValidWeather),
     DictArg([ValidWeather EXCEPT !["timestamp"] = "str"]),
     DictArg([ValidWeather EXCEPT !["humidity"] = "bool"]),
     DictArg([ValidWeather EXCEPT !["humidity"] = "str"]),
     DictArg([f \in DOMAIN ValidWeather \ {"humidity"} |-> ValidWeather[f]])}

(* the arguments tried together in validate_all *)
AllWeather ==
    {NoneArg, DictArg(ValidWeather),
     DictArg([ValidWeather EXCEPT !["humidity"] = "str"])}
AllCrypto ==
    {NoneArg, ListArg,
     FrameArg(DomainFrame(GoodDTypes(CryptoTypes), <<>>)),
     FrameArg(DomainFrame(GoodDTypes(CryptoTypes), <<"a", "b">>))}
AllPosts ==
    {NoneArg,
     FrameArg(DomainFrame(GoodDTypes(PostsTypes), <<"a", "a">>)),
     FrameArg(DomainFrame(GoodDTypes(PostsTypes), <<"a", "b">>))}

InitV ==
    /\ data = NoData
    /\ issues = <<>>
    /\ call = NoCall
    /\ ret = NoRet
    /\ reports = <<>>
    /\ ncalls = 0
    /\ InitValidator
    /\ InitStore
    /\ InitPipeline

(* self.results[key] = ... changes the dict in place: a summary whose     *)
(* details is that dict shows the new content                              *)
StoredInPlace(held, new_results) ==
    [i \in 1..Len(held) |->
        IF held[i].live
        THEN [held[i] EXCEPT !.held = [@ EXCEPT !.details = new_results]]
        ELSE held[i]]

EntryPoint(out, c) ==
    \E r \in {out} :
        /\ results' = r.results
        /\ vret' = r.ret
        /\ vcall' = c
        /\ summaries' = StoredInPlace(summaries, r.results)
        /\ UNCHANGED <<cvars, svars, pvars>>

ValidateWeatherData ==
    \E weather_data \in WeatherArgs :
        EntryPoint(validate_weather_data(results, weather_data),
                   VCall("validate_weather_data", weather_data, NoneArg, NoneArg))

ValidateCryptocurrenciesData ==
    \E crypto_df \in CryptoArgs :
        EntryPoint(validate_cryptocurrencies_data(results, crypto_df),
                   VCall("validate_cryptocurrencies_data", NoneArg, crypto_df, NoneArg))

ValidatePostsData ==
    \E posts_df \in PostsArgs :
        EntryPoint(validate_posts_data(results, posts_df),
                   VCall("validate_posts_data", NoneArg, NoneArg, posts_df))

ValidateAll ==
    \E weather_data \in AllWeather, crypto_df \in AllCrypto, posts_df \in AllPosts :
        EntryPoint(validate_all(results, weather_data, crypto_df, posts_df),
                   VCall("validate_all", weather_data, crypto_df, posts_df))

NextV ==
    \/ ValidateWeatherData
    \/ ValidateCryptocurrenciesData
    \/ ValidatePostsData
    \/ ValidateAll

SpecValidator == InitV /\ [][NextV]_vars

(* ------------- one APIValidator and the summaries it hands out --------- *)
SessionWeather ==
    {DictArg(<<>>), DictArg(ValidWeather)}
SessionCrypto ==
    {FrameArg(DomainFrame(GoodDTypes(CryptoTypes), <<"a", "b">>))}
SessionPosts ==
    {FrameArg(DomainFrame(GoodDTypes(PostsTypes), <<"a", "a">>))}

WeatherValidation ==
    \E weather_data \in SessionWeather :
        EntryPoint(validate_weather_data(results, weather_data),
                   VCall("validate_weather_data", weather_data, NoneArg, NoneArg))

CryptocurrenciesValidation ==
    \E crypto_df \in SessionCrypto :
        EntryPoint(validate_cryptocurrencies_data(results, crypto_df),
                   VCall("validate_cryptocurrencies_data", NoneArg, crypto_df, NoneArg))

PostsValidation ==
    \E posts_df \in SessionPosts :
        EntryPoint(validate_posts_data(results, posts_df),
                   VCall("validate_posts_data", NoneArg, NoneArg, posts_df))

(* get_validation_summary; the caller keeps the summary (the first         *)
(* MaxSummaries of them are followed)                                      *)
GetValidationSummary ==
    \E summary \in {get_validation_summary(results)} :
        /\ vret' = summary
        /\ vcall' = VCall("get_validation_summary", NoneArg, NoneArg, NoneArg)
        /\ summaries' = IF Len(summaries) < MaxSummaries
                        THEN Append(summaries, [returned |-> summary,
                                                held |-> summary,
                                                live |-> TRUE])
                        ELSE summaries
        /\ UNCHANGED <<results, cvars, svars, pvars>>

(* faulty variant: self.results.clear(), the dict is emptied in place *)
ClearResultsInPlace ==
    /\ results' = <<>>
    /\ summaries' = StoredInPlace(summaries, <<>>)
    /\ vret' = [raised |-> FALSE]
    /\ vcall' = VCall("clear_results", NoneArg, NoneArg, NoneArg)
    /\ UNCHANGED <<cvars, svars, pvars>>

(* clear_results: self.results is bound to a new dict; the old one stays   *)
(* with the summaries that hold it                                         *)
ClearResults ==
    /\ results' = <<>>
    /\ summaries' = [i \in 1..Len(summaries) |-> [summaries[i] EXCEPT !.live = FALSE]]
    /\ vret' = [raised |-> FALSE]
    /\ vcall' = VCall("clear_results", NoneArg, NoneArg, NoneArg)
    /\ UNCHANGED <<cvars, svars, pvars>>

NextSummary ==
    \/ WeatherValidation
    \/ CryptocurrenciesValidation
    \/ PostsValidation
    \/ GetValidationSummary
    \/ ClearResults

SpecSummary == InitV /\ [][NextSummary]_vars

(* -------------------------- one APIDataStore --------------------------- *)
(* batches handed to the store: no row, two rows *)
StoreCrypto ==
    {FrameArg(DomainFrame(GoodDTypes(CryptoTypes), rv)) : rv \in {<<>>, <<"a", "b">>}}

StorePosts ==
    {FrameArg(DomainFrame(GoodDTypes(PostsTypes), rv)) : rv \in {<<>>, <<"a", "b">>}}

(* one call of a method of the store: c the call, out what it yields *)
Called(c, out) ==
    /\ store' = out.store
    /\ scall' = c
    /\ sret' = out.ret
    /\ dbops' = out.ops
    /\ nstore' = nstore + 1

StoreMethod(c, out) ==
    /\ nstore < MaxStoreCalls
    /\ Called(c, out)
    /\ UNCHANGED <<cvars, vvars, pvars>>

Connect ==
    \E outcome \in ConnectOutcomes :
        \E out \in {connect(store, outcome)} :
            StoreMethod(SCall("connect", NoneArg, outcome, FALSE, 0),
                        [store |-> out.store, ret |-> Returned(out.ret), ops |-> <<>>])

Disconnect ==
    \E out \in {disconnect(store)} :
        StoreMethod(SCall("disconnect", NoneArg, "none", FALSE, 0),
                    [store |-> out.store, ret |-> Returned(0), ops |-> out.ops])

CreateTables ==
    \E fail \in CreateFaults :
        \E out \in {create_tables(store, fail)} :
            StoreMethod(SCall("create_tables", NoneArg, fail, FALSE, 0),
                        [store |-> out.store, ret |-> Returned(out.ret), ops |-> out.ops])

StoreCryptocurrency ==
    \E df \in StoreCrypto, fail \in StoreFaults, rollback_fails \in BOOLEAN :
        \E rowcount \in RowCounts(len(df.frame)) :
            StoreMethod(SCall("store_cryptocurrency", df, fail, rollback_fails, rowcount),
                        store_cryptocurrency(store, df, fail, rollback_fails, rowcount))

StorePostsBatch ==
    \E df \in StorePosts, fail \in StoreFaults, rollback_fails \in BOOLEAN :
        \E rowcount \in RowCounts(len(df.frame)) :
            StoreMethod(SCall("store_posts", df, fail, rollback_fails, rowcount),
                        store_posts(store, df, fail, rollback_fails, rowcount))

StoreWeatherData ==
    \E fail \in StoreFaults, rollback_fails \in BOOLEAN :
        StoreMethod(SCall("store_weather_data", DictArg(ValidWeather), fail, rollback_fails, 1),
                    store_weather_data(store, fail, rollback_fails))

NextStore ==
    \/ Connect
    \/ Disconnect
    \/ CreateTables
    \/ StoreCryptocurrency
    \/ StorePostsBatch
    \/ StoreWeatherData

SpecStore == InitV /\ [][NextStore]_vars

(* ------------------------ one run_api_pipeline ------------------------- *)
(* what a fetch gives: it raises, or returns None, an empty batch, a batch  *)
(* that passes validation, a batch with a duplicate row                     *)
Fetches(domain) ==
    IF domain \in Tabular
    THEN LET types == IF domain = "posts" THEN PostsTypes ELSE CryptoTypes
         IN  {[raised |-> TRUE, data |-> NoneArg],
              [raised |-> FALSE, data |-> NoneArg],
              [raised |-> FALSE, data |-> FrameArg([NoData EXCEPT !.isNone = FALSE])],
              [raised |-> FALSE, data |-> FrameArg(DomainFrame(GoodDTypes(types), <<"a", "b">>))],
              [raised |-> FALSE, data |-> FrameArg(DomainFrame(GoodDTypes(types), <<"a", "a">>))]}
    ELSE {[raised |-> TRUE, data |-> NoneArg],
          [raised |-> FALSE, data |-> NoneArg],
          [raised |-> FALSE, data |-> DictArg(ValidWeather)],
          [raised |-> FALSE, data |-> DictArg([ValidWeather EXCEPT !["humidity"] = "str"])]}

(* run_api_pipeline(fetch_weather, weather_key): fetcher, validator and    *)
(* store are new objects                                                   *)
RunApiPipeline ==
    /\ pc = At("idle", "-")
    /\ \E fetch_weather \in BOOLEAN, weather_key \in {"None", "key"} :
           pargs' = [fetch_weather |-> fetch_weather, weather_key |-> weather_key]
    /\ pc' = At("connect", "-")
    /\ UNCHANGED <<cvars, vvars, svars, pipeline_results, fetched, trace, dashboard>>

(* "if not store.connect(): return" *)
PipelineConnect ==
    /\ pc = At("connect", "-")
    /\ \E outcome \in ConnectOutcomes :
          \E out \in {connect(store, outcome)} :
             /\ Called(SCall("connect", NoneArg, outcome, FALSE, 0),
                       [store |-> out.store, ret |-> Returned(out.ret), ops |-> <<>>])
             /\ trace' = Append(trace, Event("connect", "-", out.ret, FALSE, 0, <<>>))
             /\ pc' = IF out.ret THEN At("create_tables", "-") ELSE At("returned", "-")
    /\ UNCHANGED <<cvars, vvars, pargs, pipeline_results, fetched, dashboard>>

PipelineCreateTables ==
    /\ pc = At("create_tables", "-")
    /\ \E fail \in CreateFaults :
          \E out \in {create_tables(store, fail)} :
             /\ Called(SCall("create_tables", NoneArg, fail, FALSE, 0),
                       [store |-> out.store, ret |-> Returned(out.ret), ops |-> out.ops])
             /\ trace' = Append(trace, Event("create_tables", "-", out.ret, FALSE, 0, out.ops))
             /\ pc' = AfterCreateTables(out.ret)
    /\ UNCHANGED <<cvars, vvars, pargs, pipeline_results, fetched, dashboard>>

(* the weather block is entered with fetch_weather and a weather key only *)
Skipped(domain) ==
    domain = "weather" /\ (~pargs.fetch_weather \/ pargs.weather_key = "None")

(* the fetch of a domain's block and the counters of a successful fetch;   *)
(* an exception leaves the try statement                                   *)
PipelineFetch(domain) ==
    /\ pc = At("fetch", domain)
    /\ IF Skipped(domain)
       THEN /\ pc' = NextBlock(domain)
            /\ UNCHANGED <<pipeline_results, fetched, trace>>
       ELSE \E f \in Fetches(domain) :
               IF f.raised
               THEN /\ pc' = At("disconnect", "finally")
                    /\ trace' = Append(trace, Event("fetch", domain, FALSE, TRUE, 0, <<>>))
                    /\ UNCHANGED <<pipeline_results, fetched>>
               ELSE \E got \in {Got(domain, f.data)} :
                       /\ fetched' = f.data
                       /\ pipeline_results' =
                              IF got
                              THEN CountFetch(pipeline_results, Records(domain, f.data))
                              ELSE pipeline_results
                       /\ trace' = Append(trace, Event("fetch", domain, got, FALSE,
                                          IF got THEN Records(domain, f.data) ELSE 0, <<>>))
                       /\ pc' = AfterFetch(domain, got)
    /\ UNCHANGED <<cvars, vvars, svars, pargs, dashboard>>

PipelineValidate(domain) ==
    /\ pc = At("validate", domain)
    /\ \E out \in {Validate(domain, results, fetched)} :
          \E passed \in {ValidationPassed(domain, out.ret)} :
             /\ results' = out.results
             /\ vret' = out.ret
             /\ vcall' = IF domain = "cryptocurrencies"
                         THEN VCall("validate_cryptocurrencies_data", NoneArg, fetched, NoneArg)
                         ELSE IF domain = "posts"
                         THEN VCall("validate_posts_data", NoneArg, NoneArg, fetched)
                         ELSE VCall("validate_weather_data", fetched, NoneArg, NoneArg)
             /\ summaries' = StoredInPlace(summaries, out.results)
             /\ pipeline_results' = CountValidation(pipeline_results, passed)
             /\ trace' = Append(trace, Event("validate", domain, passed, FALSE, 0, <<>>))
             /\ pc' = AfterValidation(domain, passed)
    /\ UNCHANGED <<cvars, svars, pargs, fetched, dashboard>>

StoreOp(domain) ==
    IF domain = "cryptocurrencies" THEN "store_cryptocurrency"
    ELSE IF domain = "posts" THEN "store_posts"
    ELSE "store_weather_data"

(* the store call of a domain's block and the counters of a positive       *)
(* count; an exception leaves the try statement                            *)
PipelineStore(domain) ==
    /\ pc = At("store", domain)
    /\ \E fail \in StoreFaults, rollback_fails \in BOOLEAN :
          \E rowcount \in RowCounts(Records(domain, fetched)) :
             \E out \in {StoreCall(domain, store, fetched, fail, rollback_fails, rowcount)} :
                /\ Called(SCall(StoreOp(domain), fetched, fail, rollback_fails, rowcount), out)
                /\ IF out.ret.raised
                   THEN /\ trace' = Append(trace, Event("store", domain, FALSE, TRUE, 0, out.ops))
                        /\ pc' = At("disconnect", "finally")
                        /\ UNCHANGED pipeline_results
                   ELSE /\ trace' = Append(trace, Event("store", domain, out.ret.value > 0,
                                                       FALSE, out.ret.value, out.ops))
                        /\ pipeline_results' = CountStore(pipeline_results, out.ret.value)
                        /\ pc' = NextBlock(domain)
    /\ UNCHANGED <<cvars, vvars, pargs, fetched, dashboard>>

(* store.disconnect(): after a failed create_tables, and in the finally    *)
(* clause of the try statement                                             *)
PipelineDisconnect ==
    /\ pc.at = "disconnect"
    /\ \E out \in {disconnect(store)} :
          /\ Called(SCall("disconnect", NoneArg, "none", FALSE, 0),
                    [store |-> out.store, ret |-> Returned(0), ops |-> out.ops])
          /\ trace' = Append(trace, Event("disconnect", "-", TRUE, FALSE, 0, out.ops))
    /\ pc' = IF pc.domain = "create_tables" THEN At("returned", "-") ELSE At("dashboard", "-")
    /\ UNCHANGED <<cvars, vvars, pargs, pipeline_results, fetched, dashboard>>

(* "if pipeline_results['successful_stores'] > 0:" generate the dashboard; *)
(* a failure of the generation is caught                                   *)
PipelineDashboard ==
    /\ pc = At("dashboard", "-")
    /\ IF pipeline_results.successful_stores > 0
       THEN \E ok \in BOOLEAN :
               /\ dashboard' = IF ok THEN "generated" ELSE "failed"
               /\ trace' = Append(trace, Event("dashboard", "-", ok, ~ok, 0, <<>>))
       ELSE UNCHANGED <<dashboard, trace>>
    /\ pc' = At("returned", "-")
    /\ UNCHANGED <<cvars, vvars, svars, pargs, pipeline_results, fetched>>

NextPipeline ==
    \/ RunApiPipeline
    \/ PipelineConnect
    \/ PipelineCreateTables
    \/ \E domain \in Tabular \cup {"weather"} : PipelineFetch(domain)
    \/ \E domain \in Tabular \cup {"weather"} : PipelineValidate(domain)
    \/ \E domain \in Tabular \cup {"weather"} : PipelineStore(domain)
    \/ PipelineDisconnect
    \/ PipelineDashboard

Locations ==
    {At(at, domain) :
        at \in {"idle", "connect", "create_tables", "fetch", "validate", "store",
                "disconnect", "dashboard", "returned"},
        domain \in Tabular \cup {"weather", "-", "create_tables", "finally"}}

(* control leaves the step it is at: every step of NextPipeline moves pc,  *)
(* and only the steps of NextPipeline do                                   *)
Advance == pc.at # "returned" /\ pc' \in Locations /\ pc' # pc

(* the interpreter runs the next statement of a run that has not returned: *)
(* connect, the fetches and the store calls have timeouts, the validation  *)
(* has bounded loops                                                       *)
SpecPipeline == InitV /\ [][NextPipeline]_vars /\ WF_pc(Advance)

(* ============================== claims ================================= *)
Passed(k) == ret.detailed_results[k].passed
Bound == ~data.isNone
CountMissing(c) == Cardinality({i \in 1..Len(data.rows) : data.rows[i][c] = NaN})

(* C1: the report of run_all_checks has validation_passed = true exactly   *)
(* when every check result in detailed_results has passed = true; a single *)
(* failed check makes the verdict false.                                   *)
C1_VerdictIsConjunction ==
    call.op = "run_all_checks" =>
        /\ {"empty_dataset", "missing_values", "duplicates"}
               \subseteq DOMAIN ret.detailed_results
        /\ ret.validation_passed \in BOOLEAN
        /\ ret.validation_passed <=>
               (\A k \in DOMAIN ret.detailed_results : Passed(k) = TRUE)
        /\ \A k \in DOMAIN ret.detailed_results :
               Passed(k) = FALSE => ret.validation_passed = FALSE

(* one check alone fails (the type check) and the verdict is false *)
C1_Witness ==
    /\ call.op = "run_all_checks"
    /\ "data_types" \in DOMAIN ret.detailed_results
    /\ Passed("empty_dataset") /\ Passed("missing_values") /\ Passed("duplicates")
    /\ ~Passed("data_types")
    /\ ~ret.validation_passed

EntryPoints ==
    {"validate_weather_data", "validate_cryptocurrencies_data",
     "validate_posts_data", "validate_all"}

(* C2: every validation entry point of APIValidator returns a structured   *)
(* result and never raises, whatever its input, also when the input is     *)
(* None, empty or not of the expected shape.                               *)
C2_EntryPointsNeverRaise ==
    vcall.op \in EntryPoints => vret.raised = FALSE

(* the report as its holder reads it now: issues_found is the checker's    *)
(* own list object, so it shows what the list holds now                    *)
Held(report) == [report EXCEPT !.issues_found = issues]

(* C3: run_all_checks called again with the same arguments returns an      *)
(* identical report (validation_passed, issues_found, detailed_results),   *)
(* and a report already returned is not altered by a later call.           *)
C3_RepeatedCallsIdentical ==
    /\ \A i, j \in 1..Len(reports) :
           reports[i].call = reports[j].call
               => reports[i].report = reports[j].report
    /\ \A i \in 1..Len(reports) : Held(reports[i].report) = reports[i].report

(* C4: on a batch with zero rows check_empty_dataset returns passed =      *)
(* false with row_count = 0 and run_all_checks returns validation_passed = *)
(* false, whatever the other checks say.                                   *)
C4_EmptyBatchFails ==
    (Bound /\ Len(data.rows) = 0) =>
        /\ call.op = "check_empty_dataset" =>
               ret.passed = FALSE /\ ret.row_count = 0
        /\ call.op = "run_all_checks" =>
               /\ ret.validation_passed = FALSE
               /\ Passed("empty_dataset") = FALSE
               /\ ret.detailed_results["empty_dataset"].row_count = 0

(* a zero-row batch on which every other check passes *)
C4_Witness ==
    /\ Bound /\ Len(data.rows) = 0 /\ data.columns # {}
    /\ call.op = "run_all_checks"
    /\ "data_types" \in DOMAIN ret.detailed_results
    /\ Passed("missing_values") /\ Passed("duplicates") /\ Passed("data_types")
    /\ ~ret.validation_passed

Exceeds(c, t) == CountMissing(c) * t[2] > t[1] * Len(data.rows)

(* C5: on a batch with at least one row check_missing_values passes        *)
(* exactly when no column has a missing fraction strictly above the        *)
(* threshold, and columns_with_issues holds exactly the columns above it;  *)
(* with threshold 0 every column with a missing value is reported.         *)
C5_MissingValuesBoundary ==
    (call.op = "check_missing_values" /\ Bound /\ Len(data.rows) >= 1) =>
        LET t == call.threshold
        IN  /\ ret.passed <=> (\A c \in data.columns : ~Exceeds(c, t))
            /\ DOMAIN ret.columns_with_issues
                   = {c \in data.columns : Exceeds(c, t)}
            /\ t = <<0, 1>> =>
                   DOMAIN ret.columns_with_issues
                       = {c \in data.columns : CountMissing(c) > 0}

(* a column with missing values exactly at the threshold, and the check passes *)
C5_Witness ==
    /\ call.op = "check_missing_values" /\ Bound /\ Len(data.rows) >= 2
    /\ \E c \in data.columns :
           /\ CountMissing(c) > 0
           /\ CountMissing(c) * call.threshold[2]
                  = call.threshold[1] * Len(data.rows)
    /\ ret.passed

LaterCopies == {i \in 1..Len(data.rows) :
                   \E j \in 1..(i - 1) : data.rows[j] = data.rows[i]}

Mismatched(expected) ==
    {c \in DOMAIN expected :
        \/ c \notin data.columns
        \/ ~(\E k \in 1..Len(expected[c].tags) : expected[c].tags[k] = data.dtypes[c])}

(* C7: for a non-empty expected_types the keys of type_mismatches are      *)
(* exactly the expected columns that are absent from the batch or whose    *)
(* dtype is not the expected tag / not in the expected tuple; batch        *)
(* columns outside expected_types never appear; passed iff it is empty.    *)
C7_TypeMismatches ==
    (call.op = "check_data_types" /\ Bound
        /\ DOMAIN call.expected_types.types # {}) =>
        LET expected == call.expected_types.types
        IN  /\ DOMAIN ret.type_mismatches = Mismatched(expected)
            /\ DOMAIN ret.type_mismatches \cap (data.columns \ DOMAIN expected) = {}
            /\ ret.passed <=> (DOMAIN ret.type_mismatches = {})

(* an expected column is absent and reported, and a batch column that is   *)
(* not expected is left out                                                *)
C7_Witness ==
    /\ call.op = "check_data_types" /\ Bound
    /\ \E c \in DOMAIN call.expected_types.types :
           c \notin data.columns /\ c \in DOMAIN ret.type_mismatches
    /\ data.columns \ DOMAIN call.expected_types.types # {}
    /\ ~ret.passed

(* C8: run_all_checks with expected_types = None holds no type-check       *)
(* result and its verdict is the conjunction of the empty, missing-value   *)
(* and duplicate checks only.                                              *)
C8_NoTypesNoTypeCheck ==
    (call.op = "run_all_checks" /\ call.expected_types.isNone) =>
        /\ DOMAIN ret.detailed_results
               = {"empty_dataset", "missing_values", "duplicates"}
        /\ ret.validation_passed <=>
               (Passed("empty_dataset") /\ Passed("missing_values")
                    /\ Passed("duplicates"))

(* a batch whose column mismatches every schema passes without a schema *)
C8_Witness ==
    /\ call.op = "run_all_checks" /\ call.expected_types.isNone
    /\ Bound /\ "post_id" \in data.columns
    /\ \A m \in TypeMaps : "post_id" \in DOMAIN m => Mismatch(data, "post_id", m["post_id"])
    /\ ret.validation_passed

ExactType(field) ==
    /\ field \in DOMAIN call.data_dict.items
    /\ call.data_dict.items[field] \in Range(call.schema[field].tags)

(* C9: validate_dict returns is_valid = true exactly when every schema     *)
(* field is present with a value whose runtime type tag is one of the      *)
(* expected tags (a Boolean for an Integer-only field is a mismatch);      *)
(* errors is null when valid and otherwise maps exactly the failing        *)
(* fields; fields_validated is the number of schema fields and the         *)
(* passed-field count is that minus the number of errors.                  *)
C9_ValidateDictExactTags ==
    (call.op = "validate_dict" /\ call.data_dict.kind = "dict") =>
        LET failing == {f \in DOMAIN call.schema : ~ExactType(f)}
        IN  /\ ret.is_valid <=> (failing = {})
            /\ ret.details.errors.isNone <=> ret.is_valid
            /\ DOMAIN ret.details.errors.map = failing
            /\ ret.details.fields_validated = Cardinality(DOMAIN call.schema)
            /\ ret.details.fields_passed
                   = ret.details.fields_validated - Cardinality(failing)

IndividualChecks ==
    {"check_empty_dataset", "check_missing_values", "check_duplicates",
     "check_data_types"}

(* C10: a check that returns passed = false appends exactly its message    *)
(* to the issue log, a check that returns passed = true appends nothing,   *)
(* and no check call shortens the log.                                     *)
C10_FailingCheckLogsMessage ==
    [][ncalls' = ncalls + 1 =>
          /\ Len(issues') >= Len(issues)
          /\ SubSeq(issues', 1, Len(issues)) = issues
          /\ call'.op \in IndividualChecks =>
                 issues' = IF ret'.passed THEN issues
                           ELSE Append(issues, ret'.message)
          /\ call'.op = "run_all_checks" =>
                 Len(issues') - Len(issues)
                     = Cardinality({k \in DOMAIN ret'.detailed_results :
                                       ~ret'.detailed_results[k].passed})]_vars

(* C11: validate_dict neither reads nor changes the checker's issue log or *)
(* bound batch: the log and the batch after the call are those before it,  *)
(* for valid and invalid records alike, and the result is the one the      *)
(* record and the schema give with any log.                                *)
C11_ValidateDictFrame ==
    [][call'.op = "validate_dict" =>
          /\ issues' = issues
          /\ data' = data
          /\ ret' = validate_dict(call'.data_dict, call'.schema)]_vars

(* an invalid record validated by a checker whose log is not empty *)
C11_Witness ==
    /\ call.op = "validate_dict"
    /\ issues # <<>>
    /\ ~ret.raised /\ ~ret.is_valid
    /\ DOMAIN ret.details.errors.map # {}

TabularEntryPoints == {"validate_cryptocurrencies_data", "validate_posts_data"}
Batch == IF vcall.op = "validate_cryptocurrencies_data"
         THEN vcall.crypto_df ELSE vcall.posts_df
DomainTypes == IF vcall.op = "validate_cryptocurrencies_data"
               THEN CryptoTypes ELSE PostsTypes
EmptyInputReport ==
    [raised |-> FALSE, validation_passed |-> FALSE,
     details |-> "Empty or None DataFrame provided", records_validated |-> 0]

(* C12: validate_cryptocurrencies_data / validate_posts_data given a null  *)
(* batch or a batch without rows return the synthetic report with          *)
(* validation_passed = false and records_validated = 0; no checker is      *)
(* built and no rule is evaluated (the report holds no check result).      *)
C12_EmptyBatchShortCircuit ==
    (/\ vcall.op \in TabularEntryPoints
     /\ \/ Batch.kind = "None"
        \/ Batch.kind = "frame" /\ Len(Batch.frame.rows) = 0) =>
        /\ vret = EmptyInputReport
        /\ DOMAIN vret \cap {"detailed_results", "issues_found"} = {}

(* a batch that has the domain's columns and no rows *)
C12_Witness ==
    /\ vcall.op = "validate_posts_data"
    /\ Batch.kind = "frame"
    /\ Len(Batch.frame.rows) = 0 /\ Batch.frame.columns # {}
    /\ vret.validation_passed = FALSE /\ vret.records_validated = 0

NoFields(arg) == arg.kind = "None" \/ (arg.kind = "dict" /\ DOMAIN arg.items = {})

(* C13: validate_weather_data given a null record or a record without      *)
(* fields returns (false, details) where details has an 'error' entry; it  *)
(* does not run validate_dict (details holds no field count) and leaves    *)
(* the stored results as they were.                                        *)
C13_EmptyRecordShortCircuit ==
    [][(vcall'.op = "validate_weather_data" /\ NoFields(vcall'.weather_data)) =>
          /\ vret'.raised = FALSE
          /\ vret'.is_valid = FALSE
          /\ "error" \in DOMAIN vret'.details
          /\ DOMAIN vret'.details \cap {"errors", "fields_validated", "fields_passed"} = {}
          /\ results' = results]_vars

(* an empty record, after a record was validated and stored *)
C13_Witness ==
    /\ vcall.op = "validate_weather_data"
    /\ vcall.weather_data = DictArg(<<>>)
    /\ "weather_data" \in DOMAIN results
    /\ vret.is_valid = FALSE

(* the report of run_all_checks on a fresh checker bound to the batch *)
FreshReport == run_all_checks(Checker(Batch.frame), Mapping(DomainTypes),
                              DefaultThreshold).ret
ReportOfFreshChecker ==
    /\ DOMAIN vret = {"raised", "validation_passed", "issues_found",
                      "detailed_results", "records_validated"}
    /\ vret.validation_passed = FreshReport.validation_passed
    /\ vret.issues_found = FreshReport.issues_found
    /\ vret.detailed_results = FreshReport.detailed_results
    /\ vret.records_validated = Len(Batch.frame.rows)

(* columns match the schema, no duplicate row, no column over 50% missing *)
WellFormed(frame, types) ==
    /\ \A c \in DOMAIN types :
           c \in frame.columns /\ frame.dtypes[c] \in Range(types[c].tags)
    /\ \A i, j \in 1..Len(frame.rows) : i # j => frame.rows[i] # frame.rows[j]
    /\ \A c \in frame.columns :
           2 * Cardinality({i \in 1..Len(frame.rows) : frame.rows[i][c] = NaN})
               <= Len(frame.rows)

(* C14 as stated: for every non-empty batch the report returned is that of *)
(* run_all_checks on a fresh checker with the domain's table, extended     *)
(* with records_validated = the row count; a well-formed batch passes.     *)
C14_EveryBatchReport ==
    (vcall.op \in TabularEntryPoints /\ Batch.kind = "frame"
        /\ ~empty(Batch.frame)) =>
        /\ ReportOfFreshChecker
        /\ WellFormed(Batch.frame, DomainTypes) => vret.validation_passed

(* C14 amended: the same for every non-empty batch on which the checks run *)
(* to their end; when a check raises (a cell that cannot be hashed) the    *)
(* report is the caught failure, with validation_passed = false and        *)
(* records_validated = 0.                                                  *)
C14_CompletedBatchReport ==
    (vcall.op \in TabularEntryPoints /\ Batch.kind = "frame"
        /\ ~empty(Batch.frame)) =>
        IF ChecksRaise(Batch.frame)
        THEN /\ DOMAIN vret = {"raised", "validation_passed", "details",
                               "records_validated"}
             /\ vret.validation_passed = FALSE
             /\ vret.records_validated = 0
        ELSE /\ ReportOfFreshChecker
             /\ WellFormed(Batch.frame, DomainTypes) => vret.validation_passed

(* a well-formed batch of two rows passes with records_validated = 2 *)
C14_Witness ==
    /\ vcall.op = "validate_cryptocurrencies_data"
    /\ Batch.kind = "frame"
    /\ Len(Batch.frame.rows) = 2
    /\ WellFormed(Batch.frame, CryptoTypes)
    /\ ~ChecksRaise(Batch.frame)
    /\ vret.validation_passed /\ vret.records_validated = 2

Supplied ==
    (IF vcall.weather_data.kind # "None" THEN {"weather"} ELSE {})
        \cup (IF vcall.crypto_df.kind # "None" THEN {"cryptocurrencies"} ELSE {})
        \cup (IF vcall.posts_df.kind # "None" THEN {"posts"} ELSE {})

(* the verdict of a domain validated on its own *)
Verdict(domain) ==
    IF domain = "weather"
    THEN validate_weather_data(<<>>, vcall.weather_data).ret.is_valid
    ELSE IF domain = "cryptocurrencies"
    THEN validate_cryptocurrencies_data(<<>>, vcall.crypto_df).ret.validation_passed
    ELSE validate_posts_data(<<>>, vcall.posts_df).ret.validation_passed

(* C15: validate_all, when it returns, has overall_passed equal to the     *)
(* conjunction of the verdicts of exactly the supplied domains, and its    *)
(* validations map has an entry for a domain if and only if the domain was *)
(* supplied; with no domain supplied overall_passed is true and the map is *)
(* empty.                                                                  *)
C15_OverallIsConjunction ==
    (vcall.op = "validate_all" /\ ~vret.raised) =>
        /\ DOMAIN vret.validations = Supplied
        /\ vret.overall_passed <=> (\A d \in Supplied : Verdict(d))
        /\ Supplied = {} => vret.overall_passed /\ vret.validations = <<>>

(* three domains supplied, two pass and one fails: the overall verdict is  *)
(* false                                                                   *)
C15_Witness ==
    /\ vcall.op = "validate_all" /\ ~vret.raised
    /\ Supplied = {"weather", "cryptocurrencies", "posts"}
    /\ Verdict("weather") /\ Verdict("cryptocurrencies") /\ ~Verdict("posts")
    /\ ~vret.overall_passed

(* C16: in the result of validate_all the entry of every supplied domain   *)
(* has the shape {passed, details} with passed equal to the domain's       *)
(* verdict; an empty batch supplied for a tabular domain gives             *)
(* overall_passed = false and that domain's entry with passed = false.     *)
C16_UniformEntries ==
    (vcall.op = "validate_all" /\ ~vret.raised) =>
        \A d \in Supplied :
            /\ d \in DOMAIN vret.validations
            /\ DOMAIN vret.validations[d] = {"passed", "details"}
            /\ vret.validations[d].passed = Verdict(d)

ResultKey ==
    IF vcall.op = "validate_weather_data" THEN "weather_data"
    ELSE IF vcall.op = "validate_cryptocurrencies_data" THEN "cryptocurrencies_data"
    ELSE "posts_data"

(* C18: after a validation call the result stored for the call's domain is *)
(* the result of that call, whatever its outcome; an earlier result of the *)
(* domain is never left in place.                                          *)
C18_StoredIsLatest ==
    (/\ vcall.op \in {"validate_weather_data", "validate_cryptocurrencies_data",
                      "validate_posts_data"}
     /\ ~vret.raised
     /\ ResultKey \in DOMAIN results) =>
        results[ResultKey] = IF vcall.op = "validate_weather_data"
                             THEN vret.details ELSE vret

(* the verdict of the validation whose result is stored for a domain *)
StoredVerdict(key) ==
    IF key = "weather_data" THEN results[key].errors.isNone
    ELSE results[key].validation_passed

(* C17: get_validation_summary returns passed = the number of stored       *)
(* domains whose validation passed, failed = the number whose validation   *)
(* failed, and total_validations = passed + failed = the number of         *)
(* domains stored, for weather results as well as tabular ones.            *)
C17_SummaryCounts ==
    vcall.op = "get_validation_summary" =>
        /\ vret.passed = Cardinality({k \in DOMAIN results : StoredVerdict(k)})
        /\ vret.failed = Cardinality({k \in DOMAIN results : ~StoredVerdict(k)})
        /\ vret.total_validations = vret.passed + vret.failed
        /\ vret.total_validations = Cardinality(DOMAIN results)

(* C19: clear_results empties the result map, a summary asked for right    *)
(* after it has total_validations = passed = failed = 0, and the           *)
(* summaries returned before the clear keep their counts and details, at   *)
(* the clear and in every later step.                                      *)
C19_ClearResults ==
    [][/\ vcall'.op = "clear_results" =>
              /\ results' = <<>>
              /\ Len(summaries') = Len(summaries)
              /\ \A i \in 1..Len(summaries) :
                     summaries'[i].held = summaries[i].held
       /\ (vcall.op = "clear_results" /\ vcall'.op = "get_validation_summary") =>
              /\ vret'.total_validations = 0
              /\ vret'.passed = 0
              /\ vret'.failed = 0
              /\ vret'.details = <<>>
       /\ \A i \in 1..Len(summaries) :
              ~summaries[i].live => summaries'[i].held = summaries[i].held]_vars

(* results were cleared and validated again; a summary from before the     *)
(* clear still shows the domains it counted                                *)
C19_Witness ==
    /\ results # <<>>
    /\ \E i \in 1..Len(summaries) :
           /\ ~summaries[i].live
           /\ summaries[i].held.total_validations > 0
           /\ summaries[i].held.details # <<>>
           /\ summaries[i].held.details # results

(* C20: a summary that get_validation_summary has returned, its counts and *)
(* its details map, is not changed by the validation calls made later.     *)
C20_SummaryIsSnapshot ==
    \A i \in 1..Len(summaries) : summaries[i].held = summaries[i].returned

(* a cell of the batch holds a list: duplicated() raises inside the checker *)
HoldsList(frame) ==
    \E i \in 1..Len(frame.rows) : \E c \in frame.columns : frame.rows[i][c] = "[]"

(* C21: when the checker raises while a non-empty batch or record is       *)
(* validated, the validator returns a failed result (validation_passed =   *)
(* false, details = the failure's description, records_validated = 0 for   *)
(* the tabular domains; (false, {error: description}) for weather) and the *)
(* failure does not reach the caller.                                      *)
C21_CheckerFailureCaught ==
    /\ (/\ vcall.op \in TabularEntryPoints
        /\ Batch.kind = "frame"
        /\ Batch.frame.columns # {} /\ Len(Batch.frame.rows) > 0
        /\ HoldsList(Batch.frame)) =>
           vret = [raised |-> FALSE, validation_passed |-> FALSE,
                   details |-> "str(e)", records_validated |-> 0]
    /\ (vcall.op = "validate_weather_data" /\ vcall.weather_data.kind = "int") =>
           vret = [raised |-> FALSE, is_valid |-> FALSE,
                   details |-> [error |-> "str(e)"]]

(* a batch with a list in a cell was validated and the caller got a report *)
C21_Witness ==
    /\ vcall.op = "validate_cryptocurrencies_data"
    /\ Batch.kind = "frame" /\ Len(Batch.frame.rows) > 0
    /\ HoldsList(Batch.frame)
    /\ vret.raised = FALSE /\ vret.validation_passed = FALSE

(* C25: run_all_checks runs the type check exactly when expected_types is  *)
(* supplied: detailed_results holds a data_types result for every supplied *)
(* mapping, the empty mapping included, and none only for None.            *)
C25_TypeCheckWhenSupplied ==
    call.op = "run_all_checks" =>
        ("data_types" \in DOMAIN ret.detailed_results
            <=> ~call.expected_types.isNone)

FailingFields ==
    {f \in DOMAIN call.schema :
        \/ f \notin DOMAIN call.data_dict.items
        \/ ~isinstance(call.data_dict.items[f], call.schema[f])}

(* C22: there is no fail-fast: run_all_checks holds a result for the       *)
(* empty, missing-value and duplicate checks (and for the type check when  *)
(* it is run) whichever of them fail, check_data_types reports every       *)
(* mismatching column of expected_types and validate_dict every failing    *)
(* schema field, in the one call.                                          *)
C22_NoFailFast ==
    /\ (call.op = "run_all_checks" /\ Bound) =>
           /\ {"empty_dataset", "missing_values", "duplicates"}
                  \subseteq DOMAIN ret.detailed_results
           /\ \A k \in DOMAIN ret.detailed_results :
                  ret.detailed_results[k].passed \in BOOLEAN
           /\ "data_types" \in DOMAIN ret.detailed_results =>
                  DOMAIN ret.detailed_results["data_types"].type_mismatches
                      = Mismatched(call.expected_types.types)
    /\ (call.op = "check_data_types" /\ Bound) =>
           DOMAIN ret.type_mismatches = Mismatched(call.expected_types.types)
    /\ (call.op = "validate_dict" /\ call.data_dict.kind = "dict") =>
           DOMAIN ret.details.errors.map = FailingFields

(* the first check fails and the later ones still report: the type check   *)
(* names both mismatching columns                                          *)
C22_Witness ==
    /\ call.op = "run_all_checks" /\ Bound
    /\ ~Passed("empty_dataset")
    /\ Passed("missing_values") /\ Passed("duplicates")
    /\ "data_types" \in DOMAIN ret.detailed_results
    /\ DOMAIN ret.detailed_results["data_types"].type_mismatches
           = {"post_id", "title"}

(* ---------------------------------------------------------------------- *)
StoreStep == nstore' = nstore + 1
WriteOps == {"create_tables", "store_cryptocurrency", "store_posts", "store_weather_data"}
BatchOps == {"store_cryptocurrency", "store_posts"}
FailureValue(op) == IF op = "create_tables" THEN Returned(FALSE) ELSE Returned(0)
Count(ops, name) == Cardinality({i \in 1..Len(ops) : ops[i] = name})

(* C27: a write operation of the store called while the store is not      *)
(* connected, and store_cryptocurrency / store_posts called with an empty  *)
(* batch, return the failure value (False for create_tables, 0 for the     *)
(* others) and make no driver call: no statement, no commit, no rollback;  *)
(* the store is left as it was.                                            *)
C27_NotConnectedOrEmpty ==
    [][(/\ StoreStep
        /\ scall'.op \in WriteOps
        /\ \/ ~is_connected(store)
           \/ scall'.op \in BatchOps /\ empty(scall'.df.frame))
       => (/\ sret' = FailureValue(scall'.op)
           /\ dbops' = <<>>
           /\ store' = store)]_vars

C27_Witness ==
    /\ scall.op = "store_posts"
    /\ ~empty(scall.df.frame)
    /\ scall.fail = "none"
    /\ ~is_connected(store)
    /\ sret = Returned(0)
    /\ dbops = <<>>

(* C28: on a connected store and a batch with rows, store_cryptocurrency   *)
(* and store_posts either insert the rows with one statement, commit once  *)
(* and return the row count the statement reported, or roll back and       *)
(* return 0; a positive count is returned only after the commit, and the   *)
(* rows committed are none or the whole batch.                             *)
C28_AllOrNothing ==
    [][(/\ StoreStep
        /\ scall'.op \in BatchOps
        /\ is_connected(store)
        /\ ~empty(scall'.df.frame))
       => (/\ ~sret'.raised
           /\ \/ /\ dbops' = <<"cursor", "executemany", "commit", "close">>
                 /\ store'.committed = store.committed + len(scall'.df.frame)
                 /\ sret'.value = scall'.rowcount
              \/ /\ Count(dbops', "rollback") = 1
                 /\ sret'.value = 0
           /\ store'.committed - store.committed \in {0, len(scall'.df.frame)})]_vars

C28_Witness ==
    /\ scall.op = "store_cryptocurrency"
    /\ is_connected(store)
    /\ scall.fail = "statement"
    /\ scall.rollback_fails
    /\ sret.raised

(* ---------------------------------------------------------------------- *)
Events(step, domain) ==
    {i \in 1..Len(trace) : trace[i].step = step /\ trace[i].domain = domain}
AllDomains == Tabular \cup {"weather"}

(* C24: in a run of run_api_pipeline a store operation of a domain is      *)
(* called only after the fetch of that domain gave data and, after that,   *)
(* its validation passed; a domain whose validation failed has no store    *)
(* call.                                                                   *)
C24_StoreAfterValidation ==
    \A domain \in AllDomains :
        /\ \A i \in Events("store", domain) :
              \E j \in Events("validate", domain) :
                 /\ j < i
                 /\ trace[j].ok
                 /\ \E k \in Events("fetch", domain) : k < j /\ trace[k].ok
        /\ (\E j \in Events("validate", domain) : ~trace[j].ok)
              => Events("store", domain) = {}

C24_Witness ==
    /\ \E i \in Events("store", "posts") : trace[i].ok
    /\ \E j \in Events("validate", "cryptocurrencies") : ~trace[j].ok
    /\ pc.at = "returned"

(* C26: in a run with fetch_weather and a weather key that has returned,   *)
(* when the weather record was fetched and its validation passed, the body *)
(* of store_weather_data ran on the summary, and a positive count it       *)
(* returned is in successful_stores and total_records_stored.              *)
C26_WeatherStored ==
    (/\ pc.at = "returned"
     /\ pargs.fetch_weather
     /\ pargs.weather_key # "None"
     /\ \E k \in Events("fetch", "weather") : trace[k].ok
     /\ \E j \in Events("validate", "weather") : trace[j].ok)
    => \E i \in Events("store", "weather") :
          /\ trace[i].ops # <<>>
          /\ trace[i].count > 0
                => /\ pipeline_results.successful_stores >= 1
                   /\ pipeline_results.total_records_stored >= trace[i].count

ConnectSucceeded == \E i \in Events("connect", "-") : trace[i].ok
DisconnectCalled == Events("disconnect", "-") # {}
SetupFailed ==
    \E i \in Events("connect", "-") \cup Events("create_tables", "-") : ~trace[i].ok
Worked ==
    \E domain \in AllDomains :
        Events("fetch", domain) \cup Events("validate", domain) \cup Events("store", domain) # {}

(* C30: when connect() succeeded, disconnect() is called, and it has been  *)
(* called when the run returns, whether create_tables failed, a step       *)
(* raised or the run completed; no fetch, validation or store step runs    *)
(* when connect() or create_tables() failed.                               *)
C30_DisconnectAlways ==
    /\ (ConnectSucceeded ~> DisconnectCalled)
    /\ []((pc.at = "returned" /\ ConnectSucceeded) => DisconnectCalled)
    /\ [](SetupFailed => ~Worked)

C30_Witness ==
    /\ pc.at = "returned"
    /\ ConnectSucceeded
    /\ \E i \in Events("fetch", "posts") : trace[i].raised
    /\ DisconnectCalled
    /\ store.connection = "closed"
====
